---- MODULE Spec2Model ----
(***************************************************************************)
(* Model of the batch repository workflow of github-cleaner:              *)
(* github_cleaner/cli.py (manage) and github_cleaner/core.py (reader,     *)
(* status prober, preview classifier, confirmation gate, executor).       *)
(* The remote hosting API is the environment: every call answers either   *)
(* truthfully from the remote state or with an error.                     *)
(***************************************************************************)
EXTENDS Integers, Sequences, FiniteSets, TLC

\* ------------------------------------------------------------------ bounds
MaxLines == 2        \* lines in the input file
MaxFaults == 1       \* remote calls that fail for a reason other than the remote state

\* ------------------------------------------------------------ text helpers
\* Text is a sequence of one-character strings.

\* needle in hay   (Python: needle in hay)
In(needle, hay) ==
    \E i \in 1..(Len(hay) - Len(needle) + 1) :
        SubSeq(hay, i, i + Len(needle) - 1) = needle

UpperChars == <<"A", "B", "C", "D", "E", "F", "G", "H", "I", "J", "K", "L", "M",
                "N", "O", "P", "Q", "R", "S", "T", "U", "V", "W", "X", "Y", "Z">>
LowerChars == <<"a", "b", "c", "d", "e", "f", "g", "h", "i", "j", "k", "l", "m",
                "n", "o", "p", "q", "r", "s", "t", "u", "v", "w", "x", "y", "z">>

LowerChar(c) ==
    IF \E k \in 1..Len(UpperChars) : UpperChars[k] = c
    THEN LowerChars[CHOOSE k \in 1..Len(UpperChars) : UpperChars[k] = c]
    ELSE c

\* str.lower()
Lower(s) == [k \in 1..Len(s) |-> LowerChar(s[k])]

Whitespace == {" ", "\t", "\n"}

RECURSIVE LStrip(_)
LStrip(s) == IF s # <<>> /\ Head(s) \in Whitespace THEN LStrip(Tail(s)) ELSE s

RECURSIVE RStrip(_)
RStrip(s) ==
    IF s # <<>> /\ s[Len(s)] \in Whitespace THEN RStrip(SubSeq(s, 1, Len(s) - 1)) ELSE s

\* str.strip()
\* Variant: only trailing whitespace is removed.
Strip_RightOnly(s) == RStrip(s)

Strip(s) == RStrip(LStrip(s))

\* ------------------------------------------------------- remote API errors
\* A GithubException carries an HTTP status and a data dictionary with the
\* message of the server.
TxtNotFound == <<"N", "o", "t", " ", "F", "o", "u", "n", "d">>
TxtAdminPermission ==
    <<"M", "u", "s", "t", " ", "h", "a", "v", "e", " ", "a", "d", "m", "i", "n", " ",
      "p", "e", "r", "m", "i", "s", "s", "i", "o", "n">>
TxtAdminRights ==
    <<"M", "u", "s", "t", " ", "h", "a", "v", "e", " ", "a", "d", "m", "i", "n", " ",
      "r", "i", "g", "h", "t", "s", " ", "t", "o", " ",
      "R", "e", "p", "o", "s", "i", "t", "o", "r", "y", ".">>
TxtServerError == <<"S", "e", "r", "v", "e", "r", " ", "E", "r", "r", "o", "r">>
TxtConnectionReset ==
    <<"C", "o", "n", "n", "e", "c", "t", "i", "o", "n", " ", "r", "e", "s", "e", "t">>

ApiError(st, msg) == [kind |-> "GithubException", status |-> st, message |-> msg]
OtherError(msg) == [kind |-> "Exception", status |-> <<>>, message |-> msg]

ErrNotFound == ApiError(<<"4", "0", "4">>, TxtNotFound)
ErrPermission == ApiError(<<"4", "0", "3">>, TxtAdminPermission)
ErrForbidden == ApiError(<<"4", "0", "3">>, TxtAdminRights)
ErrServer == ApiError(<<"5", "0", "0">>, TxtServerError)
ErrConnection == OtherError(TxtConnectionReset)

\* Errors a call can fail with whatever the state of the repository.
Faults == {ErrPermission, ErrForbidden, ErrServer, ErrConnection}

\* str(e): "<status> <json of data>" for a GithubException, the message for
\* any other exception.
StrOf(e) ==
    IF e.kind = "GithubException"
    THEN e.status \o <<" ">>
         \o <<"{", "\"", "m", "e", "s", "s", "a", "g", "e", "\"", ":", " ", "\"">>
         \o e.message \o <<"\"", "}">>
    ELSE e.message

\* ------------------------------------------------------------- remote API
Repos == {"octo/a", "octo/b"}
RepoStates == {"active", "archived", "absent"}

Found(isArchived) == [ok |-> TRUE, archived |-> isArchived, err |-> <<>>]
Failed(e) == [ok |-> FALSE, archived |-> FALSE, err |-> e]

\* Answers getRepository(fullName) can give when the repository is in state
\* st; it can fail for another reason while canFail.
GetRepositoryAnswers(st, canFail) ==
    (IF st = "absent" THEN {Failed(ErrNotFound)} ELSE {Found(st = "archived")})
    \cup (IF canFail THEN {Failed(f) : f \in Faults} ELSE {})

\* Answers of a mutating call (setArchived, deleteRepository) on a repository
\* that getRepository has just returned.
MutateAnswers(canFail) ==
    {Found(FALSE)}
    \cup (IF canFail THEN {Failed(f) : f \in Faults \cup {ErrNotFound}} ELSE {})

\* The answer is a failure that the state of the repository does not explain.
IsFault(st, answer) == ~answer.ok /\ ~(st = "absent" /\ answer.err = ErrNotFound)

\* ------------------------------------------ core.py: get_repository_status
StatusLabels ==
    {"Active", "Already Archived", "Not Found", "No Permission", "Error", "Unknown"}

\* Variant: the test for "403" in the error text is left out.
get_repository_status_WordOnly(answer) ==
    IF answer.ok
    THEN IF answer.archived THEN "Already Archived" ELSE "Active"
    ELSE IF answer.err.kind = "GithubException"
         THEN IF In(TxtNotFound, StrOf(answer.err)) THEN "Not Found"
              ELSE IF In(<<"p", "e", "r", "m", "i", "s", "s", "i", "o", "n">>,
                         Lower(StrOf(answer.err)))
                   THEN "No Permission"
                   ELSE "Error"
         ELSE "Unknown"

get_repository_status(answer) ==
    IF answer.ok
    THEN IF answer.archived THEN "Already Archived" ELSE "Active"
    ELSE IF answer.err.kind = "GithubException"
         THEN IF In(TxtNotFound, StrOf(answer.err)) THEN "Not Found"
              ELSE IF In(<<"p", "e", "r", "m", "i", "s", "s", "i", "o", "n">>,
                         Lower(StrOf(answer.err)))
                      \/ In(<<"4", "0", "3">>, StrOf(answer.err))
                   THEN "No Permission"
                   ELSE "Error"
         ELSE "Unknown"

\* --------------------------------- core.py: create_operation_preview_table
BlockedStatuses == {"Not Found", "No Permission", "Error"}

\* Variant: Unknown is treated as a blocking status.
PlannedAction_UnknownBlocked(status, operation) ==
    IF operation = "delete"
    THEN IF status \in BlockedStatuses \cup {"Unknown"}
         THEN "CANNOT DELETE" ELSE "DELETE (irreversible)"
    ELSE IF status = "Already Archived" THEN "NO CHANGE NEEDED"
         ELSE IF status \in BlockedStatuses \cup {"Unknown"} THEN "CANNOT ARCHIVE"
              ELSE "ARCHIVE (reversible)"

PlannedAction(status, operation) ==
    IF operation = "delete"
    THEN IF status \in BlockedStatuses THEN "CANNOT DELETE" ELSE "DELETE (irreversible)"
    ELSE IF status = "Already Archived" THEN "NO CHANGE NEEDED"
         ELSE IF status \in BlockedStatuses THEN "CANNOT ARCHIVE"
              ELSE "ARCHIVE (reversible)"

\* Variant: the table leaves out the rows of blocked repositories.
create_operation_preview_table_NoBlockedRows(statuses, operation) ==
    LET kept == SelectSeq(statuses, LAMBDA r : r.status \notin BlockedStatuses) IN
    [k \in 1..Len(kept) |->
        [name |-> kept[k].name, status |-> kept[k].status,
         action |-> PlannedAction(kept[k].status, operation)]]

\* core.py lines 119-145: one row per status record.
create_operation_preview_table(statuses, operation) ==
    [k \in 1..Len(statuses) |->
        [name |-> statuses[k].name, status |-> statuses[k].status,
         action |-> PlannedAction(statuses[k].status, operation)]]

\* ------------------------------------------ cli.py: manage, actionable set
\* Variant: an archived repository counts as actionable for archive.
IsActionable_ArchivedActionable(status, operation) ==
    status \notin {"Not Found", "No Permission", "Error"}

\* Variant: a repository whose probe gave Error counts as actionable.
IsActionable_ErrorActionable(status, operation) ==
    IF operation = "archive"
    THEN status \notin {"Already Archived", "Not Found", "No Permission"}
    ELSE status \notin {"Not Found", "No Permission"}

\* cli.py lines 177-183: the test that puts a name into actionable_repos.
IsActionable(status, operation) ==
    IF operation = "archive"
    THEN status \notin {"Already Archived", "Not Found", "No Permission", "Error"}
    ELSE status \notin {"Not Found", "No Permission", "Error"}

RECURSIVE ActionableRepos(_, _)
ActionableRepos(statuses, operation) ==
    IF statuses = <<>> THEN <<>>
    ELSE (IF IsActionable(Head(statuses).status, operation)
          THEN <<Head(statuses).name>> ELSE <<>>)
         \o ActionableRepos(Tail(statuses), operation)

\* ----------------------------------- core.py: perform_repository_operation
Details(txt, a) == [text |-> txt, arg |-> a]

OperationResult(repo_name, operation, success, details) ==
    [repo_name |-> repo_name, operation |-> operation,
     success |-> success, details |-> details]

\* Variant: the not-found test is left out.
ErrorDetails_NoNotFound(e) ==
    IF e.kind = "GithubException"
    THEN IF In(<<"p", "e", "r", "m", "i", "s", "s", "i", "o", "n">>, Lower(StrOf(e)))
         THEN Details("Insufficient permissions", <<>>)
         ELSE Details("GitHub error: ", StrOf(e))
    ELSE Details("Unexpected error: ", StrOf(e))

\* The except clauses: the details of a failed operation.
ErrorDetails(e) ==
    IF e.kind = "GithubException"
    THEN IF In(TxtNotFound, StrOf(e))
         THEN Details("Repository not found or no access", <<>>)
         ELSE IF In(<<"p", "e", "r", "m", "i", "s", "s", "i", "o", "n">>, Lower(StrOf(e)))
              THEN Details("Insufficient permissions", <<>>)
              ELSE Details("GitHub error: ", StrOf(e))
    ELSE Details("Unexpected error: ", StrOf(e))

\* Variant: archive does not look at the fresh archived flag.
MutatingCall_IgnoresFreshFlag(operation, isArchived) ==
    IF operation = "archive" THEN "setArchived"
    ELSE IF operation = "delete" THEN "deleteRepository" ELSE "none"

\* Variant: delete archives instead.
MutatingCall_DeleteArchives(operation, isArchived) ==
    IF operation \in {"archive", "delete"} THEN "setArchived" ELSE "none"

\* Variant: archive never issues a call.
MutatingCall_ArchiveNoCall(operation, isArchived) ==
    IF operation = "delete" THEN "deleteRepository" ELSE "none"

\* Variant: delete leaves archived repositories alone.
MutatingCall_DeleteSkipsArchived(operation, isArchived) ==
    IF isArchived THEN "none"
    ELSE IF operation = "archive" THEN "setArchived"
    ELSE IF operation = "delete" THEN "deleteRepository" ELSE "none"

\* The mutating call the operation issues once getRepository has answered
\* with a repository, "none" when it issues none.
MutatingCall(operation, isArchived) ==
    IF operation = "archive"
    THEN IF isArchived THEN "none" ELSE "setArchived"
    ELSE IF operation = "delete" THEN "deleteRepository" ELSE "none"

\* The details returned when no call raised.
SuccessDetails(operation, isArchived) ==
    IF operation = "archive"
    THEN IF isArchived THEN Details("Already archived", <<>>)
         ELSE Details("Successfully archived", <<>>)
    ELSE IF operation = "delete" THEN Details("Successfully deleted", <<>>)
         ELSE Details("Unknown operation: ", <<operation>>)

\* State of the repository after a mutating call that succeeded.
Mutated(call) == IF call = "setArchived" THEN "archived" ELSE "absent"

\* ------------------------------------------------------------------ state
VARIABLES
    command,        \* the subcommand invoked: "manage", "list" or "public"
    username,       \* public: the USERNAME argument
    repo_filter,    \* list, public: the --filter option
    export_file,    \* list, public: the --export option and whether the path can be written
    all_repos,      \* list, public: the repositories fetched
    filtered_repos, \* list, public: those that pass the filter
    exported,       \* the file at the --export path, as written by this run
    token,          \* GITHUB_TOKEN is set and non-empty
    source,         \* the file named by FILE_PATH
    operation,      \* the OPERATION argument
    remote,         \* state of each repository on the hosting platform
    faults,         \* number of remote calls that failed without cause in the remote
    pc,             \* stage of the manage command
    exit_code,      \* exit status of the process, Running while it has none
    client,         \* init_github_client has returned a client
    stdin,          \* the line the operator has typed and input() has not read yet
    repo_names,     \* manage: repo_names
    idx,            \* manage: position of the running loop (1-based)
    repo_statuses,  \* manage: repo_statuses
    preview,        \* rows of the preview table
    actionable_repos, \* manage: actionable_repos
    confirm_args,   \* arguments of each confirm_operation call
    reprompted,     \* confirm_operation has asked the operator to answer again
    confirm_result, \* what confirm_operation returned: "yes", "no", "none" before
    results,        \* manage: results
    calls,          \* remote calls issued, in order
    out             \* notices printed on the console, in order

\* The process has not exited: no exit status is negative.
Running == -1

\* What only the list and public commands read or write.
listVars == <<username, repo_filter, export_file, all_repos, filtered_repos, exported>>

vars == <<command, listVars, token, source, operation, remote, faults, pc, exit_code, client, stdin, repo_names, idx,
          repo_statuses, preview, actionable_repos, confirm_args, reprompted, confirm_result,
          results, calls, out>>

Operations == {"archive", "delete"}

\* Lines of the input file: a blank line, an identifier with surrounding
\* whitespace, a plain identifier.  An identifier is one atom of text.
\* The --export option: absent, or a path that open(path, "w") accepts or
\* refuses.
NoExport == [given |-> FALSE, writable |-> FALSE]
ExportFiles == {NoExport, [given |-> TRUE, writable |-> TRUE],
                [given |-> TRUE, writable |-> FALSE]}

\* The file at the export path: not written by this run, or the lines written.
NotWritten == [written |-> FALSE, lines |-> <<>>]

Lines == {<<"\n">>, <<" ", "octo/a", " ", "\n">>, <<"octo/b", "\n">>}

RECURSIVE SeqsUpTo(_, _)
SeqsUpTo(S, n) ==
    IF n = 0 THEN {<<>>}
    ELSE SeqsUpTo(S, n - 1)
         \cup {Append(q, x) : q \in {r \in SeqsUpTo(S, n - 1) : Len(r) = n - 1}, x \in S}

Sources ==
    {[exists |-> TRUE, readable |-> TRUE, lines |-> ls] : ls \in SeqsUpTo(Lines, MaxLines)}
    \cup {[exists |-> TRUE, readable |-> FALSE, lines |-> <<>>],
          [exists |-> FALSE, readable |-> FALSE, lines |-> <<>>]}

Init ==
    /\ command = "manage"
    /\ username = ""
    /\ repo_filter = "all"
    /\ export_file = NoExport
    /\ all_repos = <<>>
    /\ filtered_repos = <<>>
    /\ exported = NotWritten
    /\ token \in BOOLEAN
    /\ source \in Sources
    /\ operation \in Operations
    /\ remote \in [Repos -> RepoStates]
    /\ faults = 0
    /\ pc = "Idle"
    /\ exit_code = Running
    /\ client = FALSE
    /\ stdin = <<>>
    /\ repo_names = <<>>
    /\ idx = 1
    /\ repo_statuses = <<>>
    /\ preview = <<>>
    /\ actionable_repos = <<>>
    /\ confirm_args = <<>>
    /\ reprompted = FALSE
    /\ confirm_result = "none"
    /\ results = <<>>
    /\ calls = <<>>
    /\ out = <<>>

\* ------------------------------------------- core.py: read_repository_list
\* [line.strip() for line in f if line.strip()]; a stripped line is the
\* identifier it holds.
RECURSIVE read_repository_list(_)
read_repository_list(lines) ==
    IF lines = <<>> THEN <<>>
    ELSE (IF Strip(Head(lines)) # <<>> THEN <<Strip(Head(lines))[1]>> ELSE <<>>)
         \o read_repository_list(Tail(lines))

\* A remote call as logged: the stage and loop pass that issued it, and the
\* answer it got.
Call(kind, name, a, answer, stage, pass) ==
    [call |-> kind, repo |-> name, arg |-> a, answer |-> answer,
     stage |-> stage, entry |-> pass]
Notice(msg, n) == [msg |-> msg, n |-> n]

\* ---------------------------------------------------------- cli.py: manage
\* Variant: a failed read ends the process with status 1.
ExitCode_ReadErrorFails(stage) ==
    IF stage = "UsageError" THEN 2
    ELSE IF stage \in {"NoToken", "ReadError"} THEN 1
    ELSE IF stage \in {"EmptyList", "Blocked", "Cancelled", "Completed",
                        "ListFailed", "Listed", "Exported"} THEN 0
    ELSE Running

\* Exit status of the process at each stage it can stop in: a usage error of
\* click, sys.exit(1) of get_github_token, a return of manage.
ExitCode(stage) ==
    IF stage = "UsageError" THEN 2
    ELSE IF stage = "NoToken" THEN 1
    ELSE IF stage \in {"ReadError", "EmptyList", "Blocked", "Cancelled", "Completed",
                        "ListFailed", "Listed", "Exported"} THEN 0
    ELSE Running

\* The command line is parsed: click.Path(exists=True) rejects a missing file.
Invoke ==
    /\ command = "manage"
    /\ pc = "Idle"
    /\ pc' = IF source.exists THEN "Reading" ELSE "UsageError"
    /\ exit_code' = ExitCode(pc')
    /\ out' = IF source.exists THEN out
              ELSE Append(out, Notice("Error: Invalid value: Path does not exist.", 0))
    /\ UNCHANGED <<command, listVars, token, source, operation, remote, faults, client, stdin, repo_names, idx,
                   repo_statuses, preview, actionable_repos, confirm_args, reprompted,
                   confirm_result, results, calls>>

\* The file is removed after the command line was accepted and before it is
\* opened.
SourceRemoved ==
    /\ pc = "Reading"
    /\ source.exists
    /\ source' = [exists |-> FALSE, readable |-> FALSE, lines |-> <<>>]
    /\ UNCHANGED <<command, listVars, token, operation, remote, faults, pc, exit_code, client, stdin, repo_names,
                   idx, repo_statuses, preview, actionable_repos, confirm_args,
                   reprompted, confirm_result, results, calls, out>>

\* Variant: no exception leaves read_repository_list.
ReadFailure_Never(src) == "none"

\* core.py lines 83-90: the exception read_repository_list raises, "none" when
\* it returns the list.
ReadFailure(src) ==
    IF ~src.exists THEN "FileNotFoundError"
    ELSE IF ~src.readable THEN "Exception" ELSE "none"

\* Variant: the empty list is not tested.
StageAfterRead_NoEmptyCheck(failure, names, hasToken) ==
    IF failure # "none" THEN "ReadError"
    ELSE IF ~hasToken THEN "NoToken" ELSE "Probing"

\* Variant: the client is built without a token.
StageAfterRead_NoTokenCheck(failure, names, hasToken) ==
    IF failure # "none" THEN "ReadError"
    ELSE IF names = <<>> THEN "EmptyList" ELSE "Probing"

\* Lines 148-160 and 227-228: where manage goes after reading the list.
StageAfterRead(failure, names, hasToken) ==
    IF failure # "none" THEN "ReadError"
    ELSE IF names = <<>> THEN "EmptyList"
    ELSE IF ~hasToken THEN "NoToken" ELSE "Probing"

\* Lines 148-160: read the list, stop on an empty list, build the client.
Read ==
    /\ pc = "Reading"
    /\ LET failure == ReadFailure(source)
           names == IF failure = "none" THEN read_repository_list(source.lines) ELSE <<>>
           stage == StageAfterRead(failure, names, token)
       IN /\ pc' = stage
          /\ exit_code' = ExitCode(stage)
          /\ repo_names' = names
          /\ client' = (stage = "Probing")
          /\ out' = out \o
                (IF stage = "ReadError"
                 THEN (IF failure = "FileNotFoundError"
                       THEN <<Notice("Error: Repository list file not found", 0)>>
                       ELSE <<Notice("Error: Error reading repository list file", 0)>>)
                 ELSE IF stage = "EmptyList"
                 THEN <<Notice("Error: No repositories found in the file.", 0)>>
                 ELSE IF stage = "NoToken"
                 THEN <<Notice("Found repositories", Len(names)),
                        Notice("Error: GitHub token not found.", 0)>>
                 ELSE <<Notice("Found repositories", Len(names))>>)
    /\ UNCHANGED <<command, listVars, stdin, token, source, operation, remote, faults, idx, repo_statuses,
                   preview, actionable_repos, confirm_args, reprompted, confirm_result,
                   results, calls>>

\* Lines 163-167: one pass of the status loop.
Probe ==
    /\ pc = "Probing"
    /\ idx <= Len(repo_names)
    /\ \E answer \in GetRepositoryAnswers(remote[repo_names[idx]], faults < MaxFaults) :
          /\ repo_statuses' = Append(repo_statuses,
                 [name |-> repo_names[idx], status |-> get_repository_status(answer)])
          /\ faults' = faults + (IF IsFault(remote[repo_names[idx]], answer) THEN 1 ELSE 0)
          /\ calls' = Append(calls, Call("getRepository", repo_names[idx], "", answer,
                                         "Probing", idx))
    /\ idx' = idx + 1
    /\ pc' = IF idx = Len(repo_names) THEN "Previewing" ELSE "Probing"
    /\ UNCHANGED <<command, listVars, token, source, operation, remote, exit_code, client, stdin, repo_names,
                   preview, actionable_repos, confirm_args, reprompted, confirm_result, results, out>>

\* Variant: the empty actionable set is not tested.
NothingActionable_Never(actionable) == FALSE

\* Line 185: "if not actionable_repos".
NothingActionable(actionable) == actionable = <<>>

\* Lines 169-194: preview table, actionable set, skip note, and the call of
\* confirm_operation up to its first prompt.
Preview ==
    /\ pc = "Previewing"
    /\ preview' = create_operation_preview_table(repo_statuses, operation)
    /\ LET actionable == ActionableRepos(repo_statuses, operation) IN
       /\ actionable_repos' = actionable
       /\ IF NothingActionable(actionable)
          THEN /\ pc' = "Blocked"
               /\ exit_code' = ExitCode("Blocked")
               /\ confirm_args' = confirm_args
               /\ out' = Append(out, Notice("No repositories can be processed.", 0))
          ELSE /\ pc' = "AwaitingConfirmation"
               /\ exit_code' = exit_code
               /\ confirm_args' = Append(confirm_args,
                                         [operation |-> operation, repo_count |-> Len(actionable)])
               /\ out' = out
                    \o (IF Len(actionable) < Len(repo_names)
                        THEN <<Notice("Note: repositories will be skipped",
                                      Len(repo_names) - Len(actionable))>>
                        ELSE <<>>)
                    \o <<Notice("WARNING: You are about to", Len(actionable))>>
                    \o (IF operation = "delete"
                        THEN <<Notice("DELETION IS IRREVERSIBLE", 0)>> ELSE <<>>)
    /\ idx' = 1
    /\ UNCHANGED <<command, listVars, token, source, operation, remote, faults, client, stdin, repo_names,
                   repo_statuses, reprompted, confirm_result, results, calls>>

\* ------------------------------------------------ core.py: confirm_operation
\* What the operator can type at the prompt.
Responses ==
    {<<"y", "e", "s">>, <<"y">>, <<" ", "Y", "E", "S", " ">>,
     <<"n", "o">>, <<"n">>, <<"N", "o">>, <<>>,
     <<"m", "a", "y", "b", "e">>}

\* Variant: no line is recognised.
Verdict_NeverRecognised(input) == "again"

\* Variant: the line is not trimmed.
Verdict_NoStrip(input) ==
    LET response == Lower(input) IN
    IF response \in {<<"y", "e", "s">>, <<"y">>} THEN "yes"
    ELSE IF response \in {<<"n", "o">>, <<"n">>, <<>>} THEN "no"
         ELSE "again"

\* Lines 180-186: the verdict on one line of input.
Verdict(input) ==
    LET response == Strip(Lower(input)) IN
    IF response \in {<<"y", "e", "s">>, <<"y">>} THEN "yes"
    ELSE IF response \in {<<"n", "o">>, <<"n">>, <<>>} THEN "no"
         ELSE "again"

\* Variant: the return value of confirm_operation is not tested.
StageAfterConfirm_IgnoresDecline(v) ==
    IF v \in {"yes", "no"} THEN "Executing" ELSE "AwaitingConfirmation"

\* Lines 194-199 of manage: where the command goes on the verdict.
StageAfterConfirm(v) ==
    IF v = "yes" THEN "Executing"
    ELSE IF v = "no" THEN "Cancelled" ELSE "AwaitingConfirmation"

\* Line 180: the operator types a line at the prompt of input().
Answer ==
    /\ pc = "AwaitingConfirmation"
    /\ stdin = <<>>
    /\ \E input \in Responses : stdin' = <<input>>
    /\ UNCHANGED <<command, listVars, token, source, operation, remote, faults, pc, exit_code, client,
                   repo_names, idx, repo_statuses, preview, actionable_repos,
                   confirm_args, reprompted, confirm_result, results, calls, out>>

\* One pass of the prompt loop on the line read, and lines 194-200 of manage
\* on its return.
Confirm ==
    /\ pc = "AwaitingConfirmation"
    /\ stdin # <<>>
    /\ LET v == Verdict(Head(stdin)) IN
          /\ pc' = StageAfterConfirm(v)
          /\ confirm_result' = IF v = "again" THEN confirm_result ELSE v
          /\ exit_code' = ExitCode(pc')
          /\ out' = IF pc' = "Cancelled" THEN Append(out, Notice("Operation cancelled.", 0))
                    ELSE IF pc' = "Executing"
                         THEN Append(out, Notice("Starting operations...", 0))
                         ELSE out
          /\ reprompted' = (reprompted \/ v = "again")
    /\ stdin' = <<>>
    /\ UNCHANGED <<command, listVars, token, source, operation, remote, faults, client, repo_names, idx,
                   repo_statuses, preview, actionable_repos, confirm_args, results, calls>>

\* -------------------------------------------------- cli.py: the execute loop
\* Variant: the loop runs over the actionable subset.
ExecutionList_ActionableOnly(names, actionable) == actionable

\* Line 202: the list the execute loop runs over.
ExecutionList(names, actionable) == names

\* Lines 202-211 with perform_repository_operation: one pass of the loop.
Execute ==
    /\ pc = "Executing"
    /\ idx <= Len(ExecutionList(repo_names, actionable_repos))
    /\ LET repo_name == ExecutionList(repo_names, actionable_repos)[idx] IN
       \E got \in GetRepositoryAnswers(remote[repo_name], faults < MaxFaults) :
          LET call == IF got.ok THEN MutatingCall(operation, got.archived) ELSE "none" IN
          IF ~got.ok
          THEN /\ calls' = Append(calls, Call("getRepository", repo_name, "", got,
                                              "Executing", idx))
               /\ results' = Append(results,
                      OperationResult(repo_name, operation, FALSE, ErrorDetails(got.err)))
               /\ remote' = remote
               /\ faults' = faults + (IF IsFault(remote[repo_name], got) THEN 1 ELSE 0)
          ELSE IF call = "none"
          THEN /\ calls' = Append(calls, Call("getRepository", repo_name, "", got,
                                              "Executing", idx))
               /\ results' = Append(results,
                      OperationResult(repo_name, operation, operation \in Operations,
                                      SuccessDetails(operation, got.archived)))
               /\ remote' = remote
               /\ faults' = faults
          ELSE \E done \in MutateAnswers(faults < MaxFaults) :
               /\ faults' = faults + (IF done.ok THEN 0 ELSE 1)
               /\ calls' = calls \o <<Call("getRepository", repo_name, "", got,
                                           "Executing", idx),
                                      Call(call, repo_name,
                                           IF call = "setArchived" THEN "true" ELSE "",
                                           done, "Executing", idx)>>
               /\ IF done.ok
                  THEN /\ results' = Append(results,
                              OperationResult(repo_name, operation, TRUE,
                                              SuccessDetails(operation, got.archived)))
                       /\ remote' = [remote EXCEPT ![repo_name] = Mutated(call)]
                  ELSE /\ results' = Append(results,
                              OperationResult(repo_name, operation, FALSE,
                                              ErrorDetails(done.err)))
                       /\ remote' = remote
    /\ idx' = idx + 1
    /\ UNCHANGED <<command, listVars, token, source, operation, pc, exit_code, client, stdin, repo_names,
                   repo_statuses, preview, actionable_repos, confirm_args, reprompted, confirm_result, out>>

\* Variant: every result counts as successful.
Successful_CountsAll(rs) == Len(rs)

RECURSIVE Successful(_)
Successful(rs) ==
    IF rs = <<>> THEN 0
    ELSE (IF Head(rs).success THEN 1 ELSE 0) + Successful(Tail(rs))

\* Lines 213-225: the summary once the loop is over.
Report ==
    /\ pc = "Executing"
    /\ idx > Len(ExecutionList(repo_names, actionable_repos))
    /\ LET successful == Successful(results)
           failed == Len(results) - successful
       IN out' = out \o <<Notice("Operation Summary:", 0),
                          Notice("Results: successful", successful),
                          Notice("Results: failed", failed)>>
                     \o (IF failed > 0 THEN <<Notice("Some operations failed.", 0)>> ELSE <<>>)
    /\ pc' = "Completed"
    /\ exit_code' = ExitCode("Completed")
    /\ UNCHANGED <<command, listVars, token, source, operation, remote, faults, client, stdin, repo_names, idx,
                   repo_statuses, preview, actionable_repos, confirm_args, reprompted, confirm_result,
                   results, calls>>

\* ------------------------------------------------------------- environment
\* Another actor archives, unarchives, deletes or creates a repository while
\* the command runs.
OtherActor ==
    /\ pc \in {"Probing", "Previewing", "AwaitingConfirmation", "Executing"}
    /\ \E r \in Repos, st \in RepoStates :
          /\ st # remote[r]
          /\ remote' = [remote EXCEPT ![r] = st]
    /\ UNCHANGED <<command, listVars, token, source, operation, faults, pc, exit_code, client, stdin, repo_names, idx,
                   repo_statuses, preview, actionable_repos, confirm_args, reprompted, confirm_result,
                   results, calls, out>>

Next ==
    \/ Invoke
    \/ SourceRemoved
    \/ Read
    \/ Probe
    \/ Preview
    \/ Answer
    \/ Confirm
    \/ Execute
    \/ Report
    \/ OtherActor

Spec == Init /\ [][Next]_vars

\* The operator types a line that confirm_operation recognises.
RecognisedAnswer ==
    Answer /\ Strip(Lower(Head(stdin'))) \in
                 {<<"y", "e", "s">>, <<"y">>, <<"n", "o">>, <<"n">>, <<>>}

\* A step of the manage process itself.
Step == Invoke \/ Read \/ Probe \/ Preview \/ Confirm \/ Execute \/ Report

\* What every step of manage and every typed line changes.
progress == <<pc, idx, stdin>>

\* manage has a step to take: it has not ended and is not waiting for the
\* operator at the prompt (the same states as ENABLED <<Step>>_progress).
StepEnabled ==
    /\ command = "manage"
    /\ pc \in {"Idle", "Reading", "Probing", "Previewing", "AwaitingConfirmation", "Executing"}
    /\ pc = "AwaitingConfirmation" => stdin # <<>>

\* manage is one sequential process: it takes its next step once the call it
\* waits for has returned (weak fairness of Step, written with StepEnabled for
\* ENABLED), and the operator does in the end type a line that is recognised.
Fairness ==
    /\ <>[]StepEnabled => []<><<Step>>_progress
    /\ SF_progress(RecognisedAnswer)

SpecLive == Init /\ [][Next]_vars /\ Fairness

\* The command runs alone: no other actor changes the remote.
NextIsolated ==
    \/ Invoke
    \/ SourceRemoved
    \/ Read
    \/ Probe
    \/ Preview
    \/ Answer
    \/ Confirm
    \/ Execute
    \/ Report

SpecIsolated == Init /\ [][NextIsolated]_vars

\* ------------------------------------------------------------ the reader alone
\* Lines as an editor or a script leaves them: padded with blanks and tabs,
\* blank, whitespace only, and without the final newline.
ReaderLines ==
    {<<"\n">>, <<" ", " ", "\n">>, <<"\t", "\n">>,
     <<"octo/a", "\n">>, <<" ", "\t", "octo/a", " ", " ", "\n">>,
     <<"\t", "octo/b", "\n">>, <<"octo/b">>}

ReaderSources ==
    {[exists |-> TRUE, readable |-> TRUE, lines |-> ls] :
        ls \in SeqsUpTo(ReaderLines, MaxLines)}
    \cup {[exists |-> TRUE, readable |-> FALSE, lines |-> <<>>],
          [exists |-> FALSE, readable |-> FALSE, lines |-> <<>>]}

InitReader ==
    /\ command = "manage"
    /\ username = ""
    /\ repo_filter = "all"
    /\ export_file = NoExport
    /\ all_repos = <<>>
    /\ filtered_repos = <<>>
    /\ exported = NotWritten
    /\ token \in BOOLEAN
    /\ source \in ReaderSources
    /\ operation \in Operations
    /\ remote = [n \in Repos |-> "active"]
    /\ faults = 0
    /\ pc = "Idle"
    /\ exit_code = Running
    /\ client = FALSE
    /\ stdin = <<>>
    /\ repo_names = <<>>
    /\ idx = 1
    /\ repo_statuses = <<>>
    /\ preview = <<>>
    /\ actionable_repos = <<>>
    /\ confirm_args = <<>>
    /\ reprompted = FALSE
    /\ confirm_result = "none"
    /\ results = <<>>
    /\ calls = <<>>
    /\ out = <<>>

NextReader ==
    \/ Invoke
    \/ SourceRemoved
    \/ Read

SpecReader == InitReader /\ [][NextReader]_vars

\* --------------------------------------------- cli.py: the list and public commands
Filters == {"all", "active", "archived"}
Usernames == {"octo", "ghost"}

\* A repository as the listing returns it.
Repository(n, isArchived) == [full_name |-> n, archived |-> isArchived]

\* The orders in which a listing can return the repositories of a set.
RECURSIVE Listings(_)
Listings(S) ==
    IF S = {} THEN {<<>>}
    ELSE UNION {{<<Repository(n, remote[n] = "archived")>> \o l : l \in Listings(S \ {n})}
                : n \in S}

Listed(repos) == [ok |-> TRUE, repos |-> repos, err |-> <<>>]

\* Answers of get_user().get_repos() / get_user(username).get_repos(): the
\* repositories of the user, a not-found error for a user that does not exist,
\* and, when canFail, a failure for another reason.
GetReposAnswers(cmd, user, canFail) ==
    (IF cmd = "public" /\ user = "ghost"
     THEN {Failed(ErrNotFound)}
     ELSE {Listed(l) : l \in Listings({n \in Repos : remote[n] # "absent"})})
    \cup (IF canFail THEN {Failed(ErrServer), Failed(ErrConnection)} ELSE {})

\* Variant: the archived filter keeps every repository.
filter_repositories_ArchivedKeepsAll(repos, filter_type) ==
    IF filter_type = "active" THEN SelectSeq(repos, LAMBDA r : ~r.archived) ELSE repos

\* core.py lines 62-71.
filter_repositories(repos, filter_type) ==
    IF filter_type = "all" THEN repos
    ELSE IF filter_type = "active" THEN SelectSeq(repos, LAMBDA r : ~r.archived)
    ELSE SelectSeq(repos, LAMBDA r : r.archived)

\* core.py lines 74-78: the lines export_repositories writes.
export_repositories(repos) == [k \in DOMAIN repos |-> <<repos[k].full_name, "\n">>]

InitList ==
    /\ command \in {"list", "public"}
    /\ username \in (IF command = "public" THEN Usernames ELSE {""})
    /\ repo_filter \in Filters
    /\ export_file \in ExportFiles
    /\ all_repos = <<>>
    /\ filtered_repos = <<>>
    /\ exported = NotWritten
    /\ token \in BOOLEAN
    /\ source = [exists |-> FALSE, readable |-> FALSE, lines |-> <<>>]
    /\ operation = "none"
    /\ remote \in [Repos -> RepoStates]
    /\ faults = 0
    /\ pc = "Idle"
    /\ exit_code = Running
    /\ client = FALSE
    /\ stdin = <<>>
    /\ repo_names = <<>>
    /\ idx = 1
    /\ repo_statuses = <<>>
    /\ preview = <<>>
    /\ actionable_repos = <<>>
    /\ confirm_args = <<>>
    /\ reprompted = FALSE
    /\ confirm_result = "none"
    /\ results = <<>>
    /\ calls = <<>>
    /\ out = <<>>

\* Variant: list builds its client without a token.
StageAfterClient_NoTokenCheck(cmd, hasToken) == "Fetching"

\* cli.py lines 58 and 108: list needs the token, public does not.
StageAfterClient(cmd, hasToken) ==
    IF cmd = "list" /\ ~hasToken THEN "NoToken" ELSE "Fetching"

\* init_github_client() in list, init_github_client_public() in public.
ListStart ==
    /\ command \in {"list", "public"}
    /\ pc = "Idle"
    /\ pc' = StageAfterClient(command, token)
    /\ exit_code' = ExitCode(pc')
    /\ client' = (pc' = "Fetching")
    /\ out' = IF pc' = "NoToken" THEN Append(out, Notice("Error: GitHub token not found.", 0))
              ELSE out
    /\ UNCHANGED <<command, listVars, token, source, operation, remote, faults, stdin,
                   repo_names, idx, repo_statuses, preview, actionable_repos,
                   confirm_args, reprompted, confirm_result, results, calls>>

\* cli.py lines 61-64, 75-82 (list) and 111-114, 125-136 (public): fetch and
\* filter; without --export the table and the total are printed.
Fetch ==
    /\ pc = "Fetching"
    /\ \E answer \in GetReposAnswers(command, username, faults < MaxFaults) :
          /\ calls' = Append(calls, Call("getRepos", username, "", answer, "Fetching", 1))
          /\ faults' = faults + (IF answer.ok \/ answer.err = ErrNotFound THEN 0 ELSE 1)
          /\ IF answer.ok
             THEN /\ all_repos' = answer.repos
                  /\ filtered_repos' = filter_repositories(answer.repos, repo_filter)
                  /\ pc' = IF export_file.given THEN "Exporting" ELSE "Listed"
                  /\ out' = IF export_file.given THEN out
                            ELSE Append(out, Notice("Total repositories",
                                                    Len(filtered_repos')))
             ELSE /\ UNCHANGED <<all_repos, filtered_repos>>
                  /\ pc' = "ListFailed"
                  /\ out' = Append(out,
                        IF answer.err.kind # "GithubException" THEN Notice("Error:", 0)
                        ELSE IF command = "public" /\ In(TxtNotFound, StrOf(answer.err))
                             THEN Notice("Error: User not found.", 0)
                             ELSE Notice("GitHub Error:", 0))
    /\ exit_code' = ExitCode(pc')
    /\ UNCHANGED <<command, username, repo_filter, export_file, exported, token, source,
                   operation, remote, client, stdin, repo_names, idx, repo_statuses,
                   preview, actionable_repos, confirm_args, reprompted, confirm_result,
                   results>>

\* cli.py lines 71-73 and 121-123 with export_repositories.
Export ==
    /\ pc = "Exporting"
    /\ IF export_file.writable
       THEN /\ exported' = [written |-> TRUE, lines |-> export_repositories(filtered_repos)]
            /\ pc' = "Exported"
            /\ out' = Append(out, Notice("Success: Exported repositories", Len(filtered_repos)))
       ELSE /\ exported' = exported
            /\ pc' = "ListFailed"
            /\ out' = Append(out, Notice("Error:", 0))
    /\ exit_code' = ExitCode(pc')
    /\ UNCHANGED <<command, username, repo_filter, export_file, all_repos, filtered_repos,
                   token, source, operation, remote, faults, client, stdin, repo_names,
                   idx, repo_statuses, preview, actionable_repos, confirm_args,
                   reprompted, confirm_result, results, calls>>

NextList ==
    \/ ListStart
    \/ Fetch
    \/ Export

SpecList == InitList /\ [][NextList]_vars

\* Any of the three commands.
InitCli == Init \/ InitList
NextCli == Next \/ NextList
SpecCli == InitCli /\ [][NextCli]_vars

\* ================================================================ properties
\* What the server means by an API error, by its HTTP status: 404 is the
\* not-found error, 403 the permission/forbidden error.
IsNotFoundError(e) == e.kind = "GithubException" /\ e.status = <<"4", "0", "4">>
IsPermissionError(e) == e.kind = "GithubException" /\ e.status = <<"4", "0", "3">>

IsMutating(c) == c.call \in {"setArchived", "deleteRepository"}
NoMutatingCalls == \A k \in DOMAIN calls : ~IsMutating(calls[k])
MutatingCallsOn(n) ==
    Cardinality({k \in DOMAIN calls : IsMutating(calls[k]) /\ calls[k].repo = n})

\* Stages at which the preview and the actionable subset have been computed.
AfterPreview == {"Blocked", "AwaitingConfirmation", "Cancelled", "Executing", "Completed"}

\* Section 4.3: a status that makes the identifier blocked or no-change-needed.
SkippedStatus(status, op) ==
    \/ status \in {"Not Found", "No Permission", "Error"}
    \/ op = "archive" /\ status = "Already Archived"

\* The calls of the execute stage that failed.
FailedExecuteCalls ==
    {k \in DOMAIN calls : calls[k].stage = "Executing" /\ ~calls[k].answer.ok}

\* C1: no setArchived / deleteRepository call is issued unless confirm_operation
\* has returned true; when the operator declines the run ends Cancelled with
\* "Operation cancelled." and no mutating call at all.
C1_NoMutationWithoutConfirmation ==
    /\ ~NoMutatingCalls => confirm_result = "yes"
    /\ confirm_result = "no" =>
          /\ pc = "Cancelled"
          /\ NoMutatingCalls
          /\ out[Len(out)] = Notice("Operation cancelled.", 0)

C1_Witness ==
    /\ pc = "Cancelled"
    /\ confirm_result = "no"
    /\ confirm_args = <<[operation |-> "delete", repo_count |-> 2]>>

\* C2: when every probed identifier is blocked, or already archived under an
\* archive request, the run ends Blocked, confirm_operation is never called and
\* no mutating call is issued.
C2_BlockedWithoutConfirmation ==
    (/\ pc \in AfterPreview
     /\ \A k \in DOMAIN repo_statuses : SkippedStatus(repo_statuses[k].status, operation))
    => /\ pc = "Blocked"
       /\ confirm_args = <<>>
       /\ confirm_result = "none"
       /\ NoMutatingCalls

C2_Witness ==
    /\ pc = "Blocked"
    /\ operation = "delete"
    /\ repo_statuses = <<[name |-> "octo/a", status |-> "Not Found"]>>

\* C3: an identifier whose probe-time status is blocked or no-change-needed
\* never reaches the executor and never receives a mutating call.
C3_SkippedNeverExecuted ==
    \A n \in Repos :
        (/\ pc \in AfterPreview
         /\ \E k \in DOMAIN repo_statuses : repo_statuses[k].name = n
         /\ \A k \in DOMAIN repo_statuses :
               repo_statuses[k].name = n => SkippedStatus(repo_statuses[k].status, operation))
        => /\ \A j \in DOMAIN calls : calls[j].stage = "Executing" => calls[j].repo # n
           /\ \A i \in DOMAIN results : results[i].repo_name # n

\* C4: at most one mutating call is issued per identifier over one invocation.
C4_AtMostOneMutatingCall == \A n \in Repos : MutatingCallsOn(n) <= 1

\* The identifiers section 4.3 calls actionable, in input order.
RECURSIVE ActionableBySpec(_, _)
ActionableBySpec(statuses, op) ==
    IF statuses = <<>> THEN <<>>
    ELSE (IF SkippedStatus(Head(statuses).status, op) THEN <<>> ELSE <<Head(statuses).name>>)
         \o ActionableBySpec(Tail(statuses), op)

\* C5: after a confirmed run the results hold exactly one entry per actionable
\* identifier, in input order (their length is the actionable count).
C5_OneResultPerActionable ==
    pc = "Completed" =>
        [i \in DOMAIN results |-> results[i].repo_name]
            = ActionableBySpec(repo_statuses, operation)

\* The getRepository calls the executor made for entry i of the list.
ExecutorCallsFor(i) ==
    {j \in DOMAIN calls :
        calls[j].stage = "Executing" /\ calls[j].call = "getRepository" /\ calls[j].entry = i}

\* C6: once confirmed, the executor runs exactly once per entry of the list, in
\* input order; a failed item does not stop the run: the i-th result names the
\* i-th identifier and a completed run has a result for every entry.
C6_ExecutorRunsWholeList ==
    pc \in {"Executing", "Completed"} =>
        /\ Len(results) <= Len(repo_names)
        /\ \A i \in DOMAIN results :
              /\ results[i].repo_name = repo_names[i]
              /\ Cardinality(ExecutorCallsFor(i)) = 1
        /\ \A j1, j2 \in DOMAIN calls :
              (calls[j1].stage = "Executing" /\ calls[j2].stage = "Executing" /\ j1 < j2)
              => calls[j1].entry <= calls[j2].entry
        /\ \A j \in DOMAIN calls :
              calls[j].stage = "Executing" => calls[j].entry \in DOMAIN results
        /\ pc = "Completed" => Len(results) = Len(repo_names)

C6_Witness ==
    /\ pc = "Completed"
    /\ Len(results) = 2
    /\ ~results[1].success
    /\ results[2].success

\* The classification table of section 4.3.
ClassificationTable(status, op) ==
    CASE op = "delete" /\ status = "Active" -> "DELETE (irreversible)"
      [] op = "delete" /\ status = "Already Archived" -> "DELETE (irreversible)"
      [] op = "delete" /\ status = "Unknown" -> "DELETE (irreversible)"
      [] op = "delete" /\ status = "Not Found" -> "CANNOT DELETE"
      [] op = "delete" /\ status = "No Permission" -> "CANNOT DELETE"
      [] op = "delete" /\ status = "Error" -> "CANNOT DELETE"
      [] op = "archive" /\ status = "Active" -> "ARCHIVE (reversible)"
      [] op = "archive" /\ status = "Unknown" -> "ARCHIVE (reversible)"
      [] op = "archive" /\ status = "Already Archived" -> "NO CHANGE NEEDED"
      [] op = "archive" /\ status = "Not Found" -> "CANNOT ARCHIVE"
      [] op = "archive" /\ status = "No Permission" -> "CANNOT ARCHIVE"
      [] op = "archive" /\ status = "Error" -> "CANNOT ARCHIVE"
      [] OTHER -> "undefined"

\* C7: the planned action of every preview row is the one the table gives for
\* its status and the requested operation, for each of the six labels.
C7_ClassificationTotal ==
    pc \in AfterPreview =>
        /\ Len(preview) = Len(repo_statuses)
        /\ \A k \in DOMAIN preview :
              /\ preview[k].status = repo_statuses[k].status
              /\ preview[k].status \in StatusLabels
              /\ preview[k].action = ClassificationTable(preview[k].status, operation)

C7_Witness ==
    /\ pc \in AfterPreview
    /\ operation = "archive"
    /\ \E k \in DOMAIN preview :
          preview[k].status = "Unknown" /\ preview[k].action = "ARCHIVE (reversible)"

\* The label section 4.2 gives to an answer of getRepository.
LabelBySpec(answer) ==
    IF answer.ok THEN (IF answer.archived THEN "Already Archived" ELSE "Active")
    ELSE IF IsNotFoundError(answer.err) THEN "Not Found"
    ELSE IF IsPermissionError(answer.err) THEN "No Permission"
    ELSE IF answer.err.kind = "GithubException" THEN "Error"
    ELSE "Unknown"

ProbeCallsFor(k) ==
    {j \in DOMAIN calls : calls[j].stage = "Probing" /\ calls[j].entry = k}

\* C8: each probe issues exactly one getRepository call and no mutating call
\* and yields one of the six labels: the one of section 4.2 for the answer.
C8_ProbeLabelsEveryAnswer ==
    /\ \A j \in DOMAIN calls : calls[j].stage = "Probing" => calls[j].call = "getRepository"
    /\ Cardinality({j \in DOMAIN calls : calls[j].stage = "Probing"}) = Len(repo_statuses)
    /\ \A k \in DOMAIN repo_statuses :
          /\ Cardinality(ProbeCallsFor(k)) = 1
          /\ repo_statuses[k].status \in StatusLabels
          /\ \A j \in ProbeCallsFor(k) :
                /\ calls[j].repo = repo_statuses[k].name
                /\ repo_statuses[k].status = LabelBySpec(calls[j].answer)

C8_Witness ==
    \E j \in DOMAIN calls :
        /\ calls[j].stage = "Probing"
        /\ calls[j].answer = Failed(ErrForbidden)
        /\ repo_statuses[calls[j].entry].status = "No Permission"

\* C9: the executor always returns a result for its arguments; a failed call
\* gives success = false with "Repository not found or no access" for an API
\* not-found error, "GitHub error: {message}" for another API error that is no
\* permission error, "Unexpected error: {message}" for a non-API exception.
C9_ExecutorAlwaysReturns ==
    /\ \A i \in DOMAIN results :
          /\ results[i].repo_name = repo_names[i]
          /\ results[i].operation = operation
    /\ \A j \in DOMAIN calls : calls[j].stage = "Executing" => calls[j].entry \in DOMAIN results
    /\ \A j \in FailedExecuteCalls :
          LET e == calls[j].answer.err
              r == results[calls[j].entry]
          IN /\ ~r.success
             /\ IsNotFoundError(e) =>
                   r.details = Details("Repository not found or no access", <<>>)
             /\ (e.kind = "GithubException" /\ ~IsNotFoundError(e) /\ ~IsPermissionError(e)) =>
                   r.details = Details("GitHub error: ", StrOf(e))
             /\ e.kind # "GithubException" =>
                   r.details = Details("Unexpected error: ", e.message)

C9_Witness ==
    \E j \in FailedExecuteCalls :
        /\ IsMutating(calls[j])
        /\ calls[j].answer.err = ErrNotFound
        /\ results[calls[j].entry].details = Details("Repository not found or no access", <<>>)

\* C10: every API permission error raised during execute, and every error the
\* prober labels No Permission, is reported as "Insufficient permissions".
C10_PermissionErrorsReported ==
    \A j \in FailedExecuteCalls :
        (\/ IsPermissionError(calls[j].answer.err)
         \/ get_repository_status(calls[j].answer) = "No Permission")
        => results[calls[j].entry].details = Details("Insufficient permissions", <<>>)

\* The mutating calls the executor made for entry i of the list.
MutatingCallsFor(i) ==
    {j \in DOMAIN calls :
        calls[j].stage = "Executing" /\ IsMutating(calls[j]) /\ calls[j].entry = i}

\* The entries for which the executor's own getRepository gave this answer.
EntriesAnswered(answer) ==
    {calls[j].entry : j \in {k \in DOMAIN calls :
        calls[k].stage = "Executing" /\ calls[k].call = "getRepository"
                                      /\ calls[k].answer = answer}}

SetArchivedCallsOn(n) ==
    Cardinality({k \in DOMAIN calls : calls[k].call = "setArchived" /\ calls[k].repo = n})

\* An archive whose fresh getRepository shows archived = true issues no
\* mutating call and returns success with "Already archived".
ArchiveOfArchivedIsNoOp ==
    operation = "archive" =>
        \A i \in EntriesAnswered(Found(TRUE)) :
            /\ MutatingCallsFor(i) = {}
            /\ i \in DOMAIN results
            /\ results[i] = OperationResult(repo_names[i], "archive", TRUE,
                                            Details("Already archived", <<>>))

\* C11: archive is idempotent: an archive whose fresh getRepository shows
\* archived = true issues no mutating call and returns success with "Already
\* archived", and however often archive is applied to one repository it gets at
\* most one setArchived call in total.
C11_ArchiveIdempotent ==
    /\ ArchiveOfArchivedIsNoOp
    /\ \A n \in Repos : SetArchivedCallsOn(n) <= 1

\* C12: an archive of a repository that getRepository reports as not archived
\* issues exactly one setArchived(fullName, true) call; when that call succeeds
\* the result is success with "Successfully archived" and the repository is
\* archived right after the call.
C12_ArchiveCallsSetArchivedOnce ==
    /\ [](operation = "archive" =>
            \A i \in EntriesAnswered(Found(FALSE)) :
                /\ Cardinality(MutatingCallsFor(i)) = 1
                /\ \A j \in MutatingCallsFor(i) :
                      /\ calls[j].call = "setArchived"
                      /\ calls[j].repo = repo_names[i]
                      /\ calls[j].arg = "true"
                      /\ calls[j].answer.ok =>
                            results[i] = OperationResult(repo_names[i], "archive", TRUE,
                                             Details("Successfully archived", <<>>)))
    /\ [][\A j \in DOMAIN calls' \ DOMAIN calls :
              (calls'[j].call = "setArchived" /\ calls'[j].answer.ok)
              => remote'[calls'[j].repo] = "archived"]_vars

C12_Witness ==
    /\ operation = "archive"
    /\ \E j \in DOMAIN calls :
          /\ calls[j].call = "setArchived"
          /\ calls[j].answer.ok
          /\ results[calls[j].entry].details = Details("Successfully archived", <<>>)
          /\ remote[calls[j].repo] = "archived"

\* C13: a delete of a repository that getRepository finds issues exactly one
\* deleteRepository call, whether the repository is archived or not; when that
\* call succeeds the result is success with "Successfully deleted".
C13_DeleteCallsDeleteOnce ==
    operation = "delete" =>
        \A i \in EntriesAnswered(Found(FALSE)) \cup EntriesAnswered(Found(TRUE)) :
            /\ Cardinality(MutatingCallsFor(i)) = 1
            /\ \A j \in MutatingCallsFor(i) :
                  /\ calls[j].call = "deleteRepository"
                  /\ calls[j].repo = repo_names[i]
                  /\ calls[j].answer.ok =>
                        results[i] = OperationResult(repo_names[i], "delete", TRUE,
                                         Details("Successfully deleted", <<>>))

C13_Witness ==
    /\ operation = "delete"
    /\ \E i \in EntriesAnswered(Found(TRUE)) :
          /\ \E j \in MutatingCallsFor(i) : calls[j].answer.ok
          /\ results[i].details = Details("Successfully deleted", <<>>)

\* What a line holds besides whitespace.
IsText(c) == c \notin Whitespace
Written(line) == SelectSeq(line, IsText)

\* The identifiers written to the lines, in order.
RECURSIVE WrittenIdentifiers(_)
WrittenIdentifiers(lines) ==
    IF lines = <<>> THEN <<>>
    ELSE Written(Head(lines)) \o WrittenIdentifiers(Tail(lines))

\* The source has been read and read_repository_list has returned.
ListRead == pc \notin {"Idle", "Reading", "UsageError", "ReadError"}

\* C14: read_repository_list returns the identifiers written to the source,
\* trimmed, in their order and with their duplicates, whatever blank lines and
\* surrounding whitespace come with them; an empty or all-blank source gives the
\* empty list and no error.
C14_ReaderRoundTrip ==
    /\ ListRead => /\ source.exists /\ source.readable
                   /\ repo_names = WrittenIdentifiers(source.lines)
    /\ (pc \notin {"Idle", "Reading", "UsageError"} /\ source.exists /\ source.readable)
          => ListRead
    /\ (ListRead /\ \A k \in DOMAIN source.lines : Written(source.lines[k]) = <<>>)
          => repo_names = <<>> /\ pc = "EmptyList"

C14_Witness ==
    /\ ListRead
    /\ source.lines = <<<<" ", "\t", "octo/a", " ", " ", "\n">>, <<"octo/b">>>>
    /\ repo_names = <<"octo/a", "octo/b">>

\* No client, no remote call, no probe and no confirmation so far.
NothingStarted ==
    /\ ~client
    /\ calls = <<>>
    /\ repo_statuses = <<>>
    /\ confirm_args = <<>>
    /\ confirm_result = "none"

\* The manage body has moved past reading the list.
PastReading == pc \notin {"Idle", "Reading", "UsageError"}

\* C15: a failure of the reader (a missing source gives a not-found error, any
\* other failure a generic read error) aborts manage with the error printed,
\* before the client is built and before any remote call, probe, confirmation
\* or mutating call.
C15_ReaderFailureAborts ==
    /\ (PastReading /\ (~source.exists \/ ~source.readable)) => pc = "ReadError"
    /\ pc = "ReadError" =>
          /\ NothingStarted
          /\ ~source.exists => out = <<Notice("Error: Repository list file not found", 0)>>
          /\ source.exists => out = <<Notice("Error: Error reading repository list file", 0)>>

C15_Witness ==
    /\ pc = "ReadError"
    /\ source.exists /\ ~source.readable
    /\ out = <<Notice("Error: Error reading repository list file", 0)>>

\* C16: when the input yields no identifier, manage reports "No repositories
\* found" and stops: no client, no remote call, no confirmation, exit status 0.
C16_EmptyListStops ==
    /\ (PastReading /\ source.exists /\ source.readable
                    /\ WrittenIdentifiers(source.lines) = <<>>) => pc = "EmptyList"
    /\ pc = "EmptyList" =>
          /\ out = <<Notice("Error: No repositories found in the file.", 0)>>
          /\ NothingStarted
          /\ exit_code = 0

C16_Witness ==
    /\ pc = "EmptyList"
    /\ source.lines = <<<<"\n">>, <<"\n">>>>
    /\ exit_code = 0

\* The stages and transitions of section 4.6.
StagesOfSection46 ==
    {"Idle", "Reading", "EmptyList", "Probing", "Previewing", "Blocked",
     "AwaitingConfirmation", "Cancelled", "Executing", "Completed"}
TransitionsOfSection46 ==
    {<<"Idle", "Reading">>, <<"Reading", "EmptyList">>, <<"Reading", "Probing">>,
     <<"Probing", "Previewing">>, <<"Previewing", "Blocked">>,
     <<"Previewing", "AwaitingConfirmation">>, <<"AwaitingConfirmation", "Cancelled">>,
     <<"AwaitingConfirmation", "Executing">>, <<"Executing", "Completed">>}
TerminalsOfSection46 == {"EmptyList", "Blocked", "Cancelled", "Completed"}

\* The stages manage stops in besides those: the reader failed, the token is
\* missing.
AbortStages == {"ReadError", "NoToken"}
AbortTransitions == {<<"Reading", "ReadError">>, <<"Reading", "NoToken">>}

\* C17: every manage invocation follows only the transitions of section 4.6,
\* and EmptyList, Blocked, Cancelled and Completed are the only stages it can
\* end in.
C17_OnlyFourTerminals ==
    /\ [](pc # "UsageError" => pc \in StagesOfSection46)
    /\ [][(pc' # pc /\ pc' # "UsageError") => <<pc, pc'>> \in TransitionsOfSection46]_vars

\* C17 as amended: manage follows the transitions of section 4.6 and, from
\* Reading, the two aborts; a stage is entered under its condition only; the
\* stages it can end in are the four of section 4.6, ReadError and NoToken, and
\* none of them is ever left.
C17_StagesWithAborts ==
    /\ [](/\ pc # "UsageError" => pc \in StagesOfSection46 \cup AbortStages
          /\ pc = "UsageError" => NothingStarted /\ repo_names = <<>>
          /\ pc = "EmptyList" => repo_names = <<>>
          /\ pc = "NoToken" => ~token /\ repo_names # <<>> /\ NothingStarted
          /\ pc \in {"Probing", "Previewing", "Blocked", "AwaitingConfirmation",
                     "Cancelled", "Executing", "Completed"}
                => token /\ client /\ repo_names # <<>>
          /\ pc = "Blocked" => actionable_repos = <<>>
          /\ pc = "Cancelled" => confirm_result = "no"
          /\ pc \in {"Executing", "Completed"} => confirm_result = "yes")
    /\ [][/\ (pc' # pc /\ pc' # "UsageError")
                => <<pc, pc'>> \in TransitionsOfSection46 \cup AbortTransitions
          /\ pc' = "UsageError" => pc \in {"Idle", "UsageError"}
          /\ pc \in TerminalsOfSection46 \cup AbortStages \cup {"UsageError"} => pc' = pc]_vars

C17_Witness ==
    /\ pc = "NoToken"
    /\ ~token
    /\ repo_names = <<"octo/a", "octo/b">>

\* The stages in which the process has ended after the arguments were accepted.
EndedAfterParsing == TerminalsOfSection46 \cup AbortStages

\* C18: once the arguments are accepted manage exits with status 0 on every
\* path; only a rejected command line gives a non-zero status.
C18_ExitZeroAfterParsing ==
    /\ pc \in EndedAfterParsing => exit_code = 0
    /\ pc = "UsageError" => exit_code # 0

\* C18 as amended: once the arguments are accepted manage exits with status 0
\* on every path but one, the missing token found after a non-empty list was
\* read, which exits with status 1; a rejected command line gives a non-zero
\* status; the process has no exit status while manage runs.
C18_ExitZeroUnlessNoToken ==
    /\ pc \in EndedAfterParsing \ {"NoToken"} => exit_code = 0
    /\ pc = "NoToken" => exit_code = 1 /\ ~token /\ repo_names # <<>>
    /\ pc = "UsageError" => exit_code # 0
    /\ pc \notin EndedAfterParsing \cup {"UsageError"} => exit_code = Running
    /\ (pc = "Completed" /\ \E i \in DOMAIN results : ~results[i].success) => exit_code = 0

C18_Witness ==
    /\ pc = "Completed"
    /\ exit_code = 0
    /\ \A i \in DOMAIN results : ~results[i].success
    /\ Len(results) = 1

\* C19: with the token absent manage exits with a non-zero status and issues
\* no remote call, whatever the file holds and whatever the operator answers.
C19_NoTokenFailsStartup ==
    (~token /\ pc \in EndedAfterParsing /\ source.exists /\ source.readable)
    => (exit_code # 0 /\ calls = <<>>)

\* C20: list [octo/a, octo/b], archive, octo/a active and octo/b archived, no
\* failure and nobody else touching the remote: after confirmation setArchived
\* is called once, on octo/a with true, the only result is octo/a archived with
\* success, and the summary reports 1 successful, 0 failed.
C20_ScenarioArchiveOne ==
    (/\ pc = "Completed"
     /\ operation = "archive"
     /\ repo_names = <<"octo/a", "octo/b">>
     /\ repo_statuses = <<[name |-> "octo/a", status |-> "Active"],
                          [name |-> "octo/b", status |-> "Already Archived"]>>
     /\ faults = 0)
    => /\ {<<calls[j].repo, calls[j].arg>> : j \in {k \in DOMAIN calls : IsMutating(calls[k])}}
             = {<<"octo/a", "true">>}
       /\ SetArchivedCallsOn("octo/a") = 1
       /\ results = <<OperationResult("octo/a", "archive", TRUE,
                                      Details("Successfully archived", <<>>))>>
       /\ \E k \in DOMAIN out : out[k] = Notice("Results: successful", 1)
       /\ \E k \in DOMAIN out : out[k] = Notice("Results: failed", 0)

\* The lines the operator can type, by the answer section 4.4 reads in them.
Affirmative == {<<"y", "e", "s">>, <<"y">>, <<" ", "Y", "E", "S", " ">>}
Negative == {<<"n", "o">>, <<"n">>, <<"N", "o">>, <<>>}

\* confirm_operation reads the pending line in this step.
ReadsLine == pc = "AwaitingConfirmation" /\ stdin # <<>> /\ stdin' = <<>>

\* C21: confirm_operation returns true exactly on "yes" or "y" and false
\* exactly on "no", "n" or the empty line, compared case-insensitively after
\* trimming; on any other line it prompts again, as often as it takes; it
\* issues no remote call and shows the irreversibility warning exactly when
\* the operation is delete.
C21_ConfirmVerdicts ==
    /\ [](/\ (pc = "AwaitingConfirmation" /\ stdin = <<>>)
                => (confirm_result = "none" /\ ENABLED Answer)
          /\ (pc = "AwaitingConfirmation" /\ stdin # <<>>) => ENABLED Confirm
          /\ confirm_result # "none" => pc \in {"Cancelled", "Executing", "Completed"}
          /\ confirm_args # <<>> =>
                ((\E k \in DOMAIN out : out[k] = Notice("DELETION IS IRREVERSIBLE", 0))
                 <=> confirm_args[1].operation = "delete"))
    /\ [][ReadsLine =>
             /\ Head(stdin) \in Affirmative <=> confirm_result' = "yes"
             /\ Head(stdin) \in Negative <=> confirm_result' = "no"
             /\ Head(stdin) \notin Affirmative \cup Negative <=>
                   (pc' = "AwaitingConfirmation" /\ confirm_result' = "none" /\ reprompted')
             /\ calls' = calls
             /\ remote' = remote]_vars
    /\ [][(pc = "AwaitingConfirmation" /\ pc' = "AwaitingConfirmation") => calls' = calls]_vars

C21_Witness ==
    /\ pc = "Executing"
    /\ reprompted
    /\ confirm_result = "yes"
    /\ operation = "delete"
    /\ results = <<>>

\* Section 4.5: whether a repository passes the filter.
PassesFilter(r, f) ==
    \/ f = "all"
    \/ f = "active" /\ ~r.archived
    \/ f = "archived" /\ r.archived

\* The file the export is to hold for a listing: one "owner/name" line per
\* repository that passes the filter, in listing order.
RECURSIVE ExpectedExport(_, _)
ExpectedExport(repos, f) ==
    IF repos = <<>> THEN <<>>
    ELSE (IF PassesFilter(Head(repos), f) THEN <<<<Head(repos).full_name, "\n">>>> ELSE <<>>)
         \o ExpectedExport(Tail(repos), f)

\* C22: with --export the file holds exactly the full names of the listed
\* repositories that pass the filter, one per line, newline-terminated, in
\* listing order and with no header; only list and public write it, manage
\* writes no file.
C22_ExportHoldsFilteredNames ==
    /\ pc = "Exported" =>
          /\ exported.written
          /\ calls = <<Call("getRepos", username, "", Listed(all_repos), "Fetching", 1)>>
          /\ exported.lines = ExpectedExport(all_repos, repo_filter)
    /\ exported.written =>
          /\ command \in {"list", "public"}
          /\ export_file.given
          /\ pc = "Exported"
    /\ command = "manage" => exported = NotWritten
    /\ ~export_file.given => exported = NotWritten

C22_Witness ==
    /\ pc = "Exported"
    /\ command = "list"
    /\ repo_filter = "archived"
    /\ all_repos = <<Repository("octo/b", FALSE), Repository("octo/a", TRUE)>>
    /\ exported.lines = <<<<"octo/a", "\n">>>>

\* The stages in which the list command has ended.
ListEnded == {"NoToken", "ListFailed", "Listed", "Exported"}

\* C23: list issues no mutating call and exits with status 0 on every path;
\* an error raised while fetching, filtering or exporting is printed.
C23_ListAlwaysExitsZero ==
    command = "list" =>
        /\ NoMutatingCalls
        /\ pc \in ListEnded => exit_code = 0

\* C23 as amended: list issues no mutating call and leaves the remote as it
\* is; it exits with status 0 on every path on which the token is present, an
\* error raised while fetching or exporting being printed; with the token
\* absent it exits with status 1 before any remote call.
C23_ListExitsZeroWithToken ==
    /\ [](command = "list" =>
            /\ NoMutatingCalls
            /\ (pc \in ListEnded /\ token) => (pc # "NoToken" /\ exit_code = 0)
            /\ (pc # "Idle" /\ ~token) => (pc = "NoToken" /\ exit_code = 1 /\ calls = <<>>)
            /\ pc \notin ListEnded => exit_code = Running
            /\ pc = "ListFailed" =>
                  /\ out[Len(out)].msg \in {"GitHub Error:", "Error:"}
                  /\ exported = NotWritten
                  /\ \/ \E j \in DOMAIN calls : ~calls[j].answer.ok
                     \/ export_file.given /\ ~export_file.writable)
    /\ [][command = "list" => remote' = remote]_vars

C23_Witness ==
    /\ command = "list"
    /\ pc = "ListFailed"
    /\ exit_code = 0
    /\ calls # <<>> /\ calls[1].answer.ok
    /\ export_file.given /\ ~export_file.writable

\* The stages in which manage has ended.
ManageEnded == {"UsageError", "ReadError", "EmptyList", "NoToken", "Blocked",
                "Cancelled", "Completed"}

\* C24: when every remote call returns and the operator does in the end type
\* a recognised answer, every manage invocation ends; once the operator has
\* confirmed, Completed is reached, after one executor step per entry and no
\* retry, with the per-item results and the counts printed.
C24_ManageTerminates ==
    /\ <>(pc \in ManageEnded)
    /\ (confirm_result = "yes") ~> (pc = "Completed")
    /\ [](pc = "Executing" =>
            /\ Len(results) = idx - 1
            /\ Len(results) <= Len(repo_names)
            /\ \A i \in DOMAIN results : Cardinality(ExecutorCallsFor(i)) = 1)
    /\ [](pc = "Completed" =>
            /\ Len(results) = Len(repo_names)
            /\ \E k \in DOMAIN out : out[k].msg = "Results: successful"
            /\ \E k \in DOMAIN out : out[k].msg = "Results: failed")

C24_Witness ==
    /\ pc = "Completed"
    /\ reprompted
    /\ Len(results) = 2
    /\ \E k \in DOMAIN out : out[k] = Notice("Results: failed", 1)

\* The numbers a notice of the summary was printed with.
Printed(msg) == {out[k].n : k \in {j \in DOMAIN out : out[j].msg = msg}}

\* C25: in the summary of a completed run "successful" is the number of
\* results with success = true, "failed" the number with success = false,
\* their sum the number of results, and "Some operations failed" is printed
\* exactly when failed > 0.
C25_SummaryCounts ==
    pc = "Completed" =>
        LET good == Cardinality({i \in DOMAIN results : results[i].success})
            bad == Cardinality({i \in DOMAIN results : ~results[i].success})
        IN /\ Printed("Results: successful") = {good}
           /\ Printed("Results: failed") = {bad}
           /\ good + bad = Len(results)
           /\ (Printed("Some operations failed.") # {}) <=> (bad > 0)
           /\ Cardinality({k \in DOMAIN out : out[k].msg = "Operation Summary:"}) = 1

C25_Witness ==
    /\ pc = "Completed"
    /\ Printed("Results: successful") = {1}
    /\ Printed("Results: failed") = {1}
    /\ Printed("Some operations failed.") # {}

\* The calls of the probe stage, in the order they were issued.
ProbeCalls == SelectSeq(calls, LAMBDA c : c.stage = "Probing")

\* C26: probing issues one getRepository call per entry of the list, in input
\* order, duplicates included, and gives a status sequence of the length of the
\* list whose i-th record names the i-th identifier; the preview has the same
\* rows in the same order.
C26_ProbeOncePerEntry ==
    /\ Len(ProbeCalls) = Len(repo_statuses)
    /\ Len(repo_statuses) <= Len(repo_names)
    /\ pc = "Probing" => Len(repo_statuses) = idx - 1
    /\ \A i \in DOMAIN repo_statuses :
          /\ repo_statuses[i].name = repo_names[i]
          /\ calls[i] = ProbeCalls[i]
          /\ ProbeCalls[i].call = "getRepository"
          /\ ProbeCalls[i].repo = repo_names[i]
          /\ ProbeCalls[i].entry = i
    /\ pc \in {"Previewing"} \cup AfterPreview => Len(repo_statuses) = Len(repo_names)
    /\ pc \in AfterPreview =>
          /\ Len(preview) = Len(repo_names)
          /\ \A i \in DOMAIN preview : preview[i].name = repo_names[i]

C26_Witness ==
    /\ pc \in AfterPreview
    /\ repo_names = <<"octo/b", "octo/b">>
    /\ Len(ProbeCalls) = 2
    /\ ProbeCalls[1].answer # ProbeCalls[2].answer
    /\ Len(preview) = 2

\* C27: when the actionable subset is not empty, confirm_operation is called
\* once, with the size of the actionable subset as its count, and the skip note
\* is printed before it exactly when actionable < total, with total - actionable.
C27_GateCalledOnceWithCount ==
    /\ Len(confirm_args) <= 1
    /\ pc \in AfterPreview =>
          LET actionable == Len(ActionableBySpec(repo_statuses, operation))
              total == Len(repo_names)
          IN /\ actionable = 0 => confirm_args = <<>>
             /\ actionable > 0 =>
                   /\ confirm_args = <<[operation |-> operation, repo_count |-> actionable]>>
                   /\ Printed("WARNING: You are about to") = {actionable}
                   /\ actionable < total <=>
                         Printed("Note: repositories will be skipped") # {}
                   /\ Printed("Note: repositories will be skipped") \subseteq {total - actionable}
                   /\ \A j, k \in DOMAIN out :
                         (/\ out[j].msg = "Note: repositories will be skipped"
                          /\ out[k].msg = "WARNING: You are about to") => j < k

C27_Witness ==
    /\ pc = "AwaitingConfirmation"
    /\ Len(repo_names) = 2
    /\ confirm_args = <<[operation |-> "archive", repo_count |-> 1]>>
    /\ Printed("Note: repositories will be skipped") = {1}

\* The planned actions that stand for "will be processed".
ActionableActions == {"ARCHIVE (reversible)", "DELETE (irreversible)"}

\* C28: the two classifiers agree: for every status label and operation a
\* name is put into the actionable set exactly when its planned action in the
\* preview is ARCHIVE (reversible) or DELETE (irreversible), so the number of
\* such rows is the count handed to confirm_operation.
C28_ClassifiersAgree ==
    /\ \A status \in StatusLabels, op \in Operations :
          IsActionable(status, op) <=> PlannedAction(status, op) \in ActionableActions
    /\ pc \in AfterPreview =>
          LET rows == SelectSeq(preview, LAMBDA r : r.action \in ActionableActions) IN
          /\ actionable_repos = [i \in 1..Len(rows) |-> rows[i].name]
          /\ confirm_args # <<>> => confirm_args[1].repo_count = Len(rows)
          /\ confirm_args = <<>> => rows = <<>>

C28_Witness ==
    /\ pc \in AfterPreview
    /\ operation = "delete"
    /\ \E k \in DOMAIN preview : preview[k].status = "Unknown"
    /\ \E k \in DOMAIN preview : preview[k].status = "Not Found"
    /\ Len(actionable_repos) = 1
    /\ confirm_args # <<>>

\* The answer the executor's own getRepository got for entry i.
FreshAnswers(i) == {calls[j].answer : j \in ExecutorCallsFor(i)}

\* C29: the executor decides on its own fresh getRepository, not on the probe:
\* a repository probed Active that another actor archived before its execute
\* step gets no setArchived call and the result success "Already archived"; one
\* that was removed in between makes getRepository fail, gets no mutating call
\* and the result failure "Repository not found or no access", and the batch
\* goes on with the next identifier.
C29_ExecutorUsesFreshStatus ==
    /\ [](/\ \A i \in DOMAIN results :
                repo_statuses[i].status = "Active" =>
                    /\ (operation = "archive" /\ FreshAnswers(i) = {Found(TRUE)}) =>
                          /\ MutatingCallsFor(i) = {}
                          /\ results[i] = OperationResult(repo_names[i], "archive", TRUE,
                                              Details("Already archived", <<>>))
                    /\ FreshAnswers(i) = {Failed(ErrNotFound)} =>
                          /\ MutatingCallsFor(i) = {}
                          /\ results[i] = OperationResult(repo_names[i], operation, FALSE,
                                              Details("Repository not found or no access", <<>>))
          /\ pc = "Executing" => idx = Len(results) + 1
          /\ pc = "Completed" => Len(results) = Len(repo_names))
    /\ [][\A j \in DOMAIN calls' \ DOMAIN calls :
              (calls'[j].stage = "Executing" /\ calls'[j].call = "getRepository") =>
                  /\ remote[calls'[j].repo] = "absent" => ~calls'[j].answer.ok
                  /\ calls'[j].answer.ok =>
                        (calls'[j].answer.archived <=> remote[calls'[j].repo] = "archived")]_vars

C29_Witness ==
    /\ pc = "Completed"
    /\ operation = "archive"
    /\ faults = 0
    /\ repo_statuses = <<[name |-> "octo/a", status |-> "Active"],
                         [name |-> "octo/b", status |-> "Active"]>>
    /\ results[1].details = Details("Already archived", <<>>)
    /\ results[2].details = Details("Repository not found or no access", <<>>)
    /\ NoMutatingCalls

\* C30: the operation bounds the mutation: under archive no deleteRepository
\* is issued and setArchived is called with true only; under delete no
\* setArchived is issued; every mutating call comes right after a successful
\* getRepository for the same identifier in the same executor step.
C30_OperationBoundsMutation ==
    \A j \in DOMAIN calls :
        IsMutating(calls[j]) =>
            /\ operation = "archive" => (calls[j].call = "setArchived" /\ calls[j].arg = "true")
            /\ operation = "delete" => calls[j].call = "deleteRepository"
            /\ calls[j].stage = "Executing"
            /\ j > 1
            /\ calls[j - 1].call = "getRepository"
            /\ calls[j - 1].answer.ok
            /\ calls[j - 1].repo = calls[j].repo
            /\ calls[j - 1].stage = "Executing"
            /\ calls[j - 1].entry = calls[j].entry

C30_Witness ==
    /\ pc = "Completed"
    /\ operation = "archive"
    /\ MutatingCallsOn("octo/a") = 1
    /\ MutatingCallsOn("octo/b") = 1
    /\ \A j \in DOMAIN calls : IsMutating(calls[j]) => calls[j].answer.ok

====
